---- MODULE Spec2Model ----
(***************************************************************************)
(* A model of firds.py: the FIRDS manifest parser and paginator, the       *)
(* archive fetcher, and the ISIN->LEI lookup store kept in SQLite.         *)
(*                                                                         *)
(* Five specifications share this module:                                  *)
(*   SpecParse    _parse_file_urls as a pure function of a page            *)
(*   SpecPaginate get_file_urls against a search endpoint                  *)
(*   SpecFetch    download_zipped_file                                     *)
(*   SpecStore    append_to_table / lookup_leis, one call at a time        *)
(*   SpecConc     append_to_table / lookup_leis on separate connections,   *)
(*                statement by statement                                   *)
(***************************************************************************)
EXTENDS Integers, Sequences, FiniteSets, TLC

VARIABLES
    \* _parse_file_urls
    p_pc, p_root, p_ftype, p_urls,
    \* get_file_urls and the search endpoint
    g_pc, total, from_date, to_date, ftype, start, num_results, urls, requests,
    \* download_zipped_file
    f_pc, f_response, dir_exists, dir_files, opened, f_result,
    \* the SQLite database file (committed rows of the table, in rowid order)
    table_exists, table,
    \* append_to_table / lookup_leis, one call at a time
    records_seen, last, first_insert, first_valid, null_isin_valid,
    \* append_to_table / lookup_leis, statement by statement
    a_pc, a_args, a_txn, a_before, a_new, write_lock, l_pc, l_isins, l_results, l_seen

parse_vars == <<p_pc, p_root, p_ftype, p_urls>>
page_vars  == <<g_pc, total, from_date, to_date, ftype, start, num_results, urls, requests>>
fetch_vars == <<f_pc, f_response, dir_exists, dir_files, opened, f_result>>
db_vars    == <<table_exists, table>>
store_vars == <<records_seen, last, first_insert, first_valid, null_isin_valid>>
conc_vars  == <<a_pc, a_args, a_txn, a_before, a_new, write_lock, l_pc, l_isins, l_results, l_seen>>
vars == <<parse_vars, page_vars, fetch_vars, db_vars, store_vars, conc_vars>>

\* Each component leaves the state of the others alone.
OnlyParse == UNCHANGED <<page_vars, fetch_vars, db_vars, store_vars, conc_vars>>
OnlyPage  == UNCHANGED <<parse_vars, fetch_vars, db_vars, store_vars, conc_vars>>
OnlyFetch == UNCHANGED <<parse_vars, page_vars, db_vars, store_vars, conc_vars>>
OnlyStore == UNCHANGED <<parse_vars, page_vars, fetch_vars, conc_vars>>
OnlyConc  == UNCHANGED <<parse_vars, page_vars, fetch_vars, store_vars>>

(***************************************************************************)
(* Strings are sequences of one-character strings, so that startswith and  *)
(* format are computed rather than assumed.                                *)
(***************************************************************************)
StartsWith(s, prefix) ==
    /\ Len(prefix) <= Len(s)
    /\ SubSeq(s, 1, Len(prefix)) = prefix

\* FNAME_START = 'FULINS_{}' ; FNAME_START.format(f)
FNAME_START(f) == <<"F", "U", "L", "I", "N", "S", "_">> \o <<f>>

FULINS_B_1 == <<"F", "U", "L", "I", "N", "S", "_", "B", "_", "1">>
FULINS_E_2 == <<"F", "U", "L", "I", "N", "S", "_", "E", "_", "2">>
FULINS_C_3 == <<"F", "U", "L", "I", "N", "S", "_", "C", "_", "3">>
DLTINS_B_1 == <<"D", "L", "T", "I", "N", "S", "_", "B", "_", "1">>
FULINS     == <<"F", "U", "L", "I", "N", "S">>

FileNames == {FULINS_B_1, FULINS_E_2, FULINS_C_3, DLTINS_B_1, FULINS}

\* ftype arguments: '' , 'B', 'E', 'BE', 'D'
Filters == {<<>>, <<"B">>, <<"E">>, <<"B", "E">>, <<"D">>}

MaxPage == 3

\* Sequences over S of length at most n.
SeqUpTo(S, n) == UNION {[1..k -> S] : k \in 0..n}

(***************************************************************************)
(* _parse_file_urls: the condition of line 64 for one entry, and the loop  *)
(* over root[1].                                                           *)
(***************************************************************************)
FnameLetterOnly(fname, f) == Len(fname) >= 8 /\ fname[8] = f

FnameMatches(fname, f) == StartsWith(fname, FNAME_START(f))

Keep(fname, ft) ==
    \/ Len(ft) = 0
    \/ \E k \in 1..Len(ft) : FnameMatches(fname, ft[k])

\* lines 60-68: the entries kept, in the order of the page, and their links
ParseFileUrls(docs, ft) ==
    LET kept == SelectSeq(docs, LAMBDA entry : Keep(entry.file_name, ft))
    IN  [k \in 1..Len(kept) |-> kept[k].download_link]

\* A result page holding the given file names; the download link of the
\* i-th entry is i.
PageOf(names) ==
    [numFound |-> Len(names),
     docs |-> [i \in 1..Len(names) |-> [file_name |-> names[i], download_link |-> i]]]

(***************************************************************************)
(* The state of each component before it is called.                        *)
(***************************************************************************)
NoDate == 0

ParseIdle ==
    /\ p_pc = "idle" /\ p_root = PageOf(<<>>) /\ p_ftype = <<>> /\ p_urls = <<>>

PageIdle ==
    /\ g_pc = "idle" /\ total = 0 /\ from_date = NoDate /\ to_date = NoDate
    /\ ftype = <<>> /\ start = 0 /\ num_results = 0 /\ urls = <<>> /\ requests = <<>>

FetchIdle ==
    /\ f_pc = "idle" /\ f_response = <<>>
    /\ dir_exists = FALSE /\ dir_files = {} /\ opened = FALSE /\ f_result = <<>>

DbEmpty ==
    /\ table_exists = FALSE /\ table = <<>>

(***************************************************************************)
(* SpecParse: _parse_file_urls applied to one page.                        *)
(***************************************************************************)
ParseInit ==
    /\ p_pc = "call"
    /\ p_root \in {PageOf(names) : names \in SeqUpTo(FileNames, MaxPage)}
    /\ p_ftype \in Filters
    /\ p_urls = <<>>

ParseCall ==
    /\ p_pc = "call"
    /\ p_urls' = ParseFileUrls(p_root.docs, p_ftype)
    /\ p_pc' = "done"
    /\ UNCHANGED <<p_root, p_ftype>>
    /\ OnlyParse

(***************************************************************************)
(* The search endpoint (Q_URL): a fixed list of `total` entries published  *)
(* inside the window; a page holds the entries start .. start+rows-1 that  *)
(* exist, and every page reports the number found.                         *)
(***************************************************************************)
MaxTotal == 301

Today == 9

Lookback == 7

rows == 100

NameCycle == <<FULINS_B_1, FULINS_E_2, DLTINS_B_1, FULINS_C_3, FULINS>>

Entry(i) == [file_name |-> NameCycle[(i % Len(NameCycle)) + 1], download_link |-> i]

Min(a, b) == IF a <= b THEN a ELSE b

NumFound(req) == IF req.from_date > req.to_date THEN 0 ELSE total

RequestFileUrls(req) ==
    LET n    == NumFound(req)
        last_i == Min(req.start + req.rows, n)
        cnt  == IF last_i > req.start THEN last_i - req.start ELSE 0
    IN  [numFound |-> n, docs |-> [k \in 1..cnt |-> Entry(req.start + k - 1)]]

(***************************************************************************)
(* get_file_urls                                                           *)
(***************************************************************************)
DateArgs == {NoDate, 1, 2}

PageFilters == {<<>>, <<"B">>, <<"B", "E">>}

\* lines 79-83: the window that is requested
WindowFrom(f, t) == IF f = NoDate THEN Today - Lookback ELSE f

WindowTo(f, t) == IF f = NoDate THEN Today ELSE IF t = NoDate THEN f ELSE t

\* line 89: while num_results > (start + rows)
MorePagesInclusive(n, s) == n >= s + rows

MorePages(n, s) == n > s + rows

\* line 90: start += rows
NextStart(s) == s + rows

\* line 92: urls += ...
Overwrite(old, new) == new

Accumulate(old, new) == old \o new

Request(f, t, s) == [from_date |-> f, to_date |-> t, start |-> s, rows |-> rows]

PageInit ==
    /\ g_pc = "call"
    /\ total \in 0..MaxTotal
    /\ from_date \in DateArgs
    /\ to_date \in DateArgs
    /\ ftype \in PageFilters
    /\ start = 0 /\ num_results = 0 /\ urls = <<>> /\ requests = <<>>

\* lines 76-87
GetFileUrlsFirst ==
    /\ g_pc = "call"
    /\ LET f   == WindowFrom(from_date, to_date)
           t   == WindowTo(from_date, to_date)
           req == Request(f, t, 0)
           root == RequestFileUrls(req)
       IN  /\ from_date' = f
           /\ to_date' = t
           /\ start' = 0
           /\ requests' = <<req>>
           /\ num_results' = root.numFound
           /\ urls' = ParseFileUrls(root.docs, ftype)
    /\ g_pc' = "loop"
    /\ UNCHANGED <<total, ftype>>
    /\ OnlyPage

\* lines 89-92, one iteration
GetFileUrlsNext ==
    /\ g_pc = "loop"
    /\ MorePages(num_results, start)
    /\ LET req  == Request(from_date, to_date, NextStart(start))
           root == RequestFileUrls(req)
       IN  /\ start' = NextStart(start)
           /\ requests' = Append(requests, req)
           /\ urls' = Accumulate(urls, ParseFileUrls(root.docs, ftype))
    /\ UNCHANGED <<g_pc, total, from_date, to_date, ftype, num_results>>
    /\ OnlyPage

\* line 94
GetFileUrlsReturn ==
    /\ g_pc = "loop"
    /\ ~MorePages(num_results, start)
    /\ g_pc' = "done"
    /\ UNCHANGED <<total, from_date, to_date, ftype, start, num_results, urls, requests>>
    /\ OnlyPage

(***************************************************************************)
(* download_zipped_file.  The response of requests.get is a status code    *)
(* and, as content, a zip archive listing at least one entry; f_response   *)
(* is empty until it arrives.  Paths are sequences of components;          *)
(* os.path.join appends one.                                               *)
(***************************************************************************)
MaxEntries == 2

EntryNames == {"AB.xml", "C.xml", "E.xml"}

Statuses == {200, 304, 404, 500}

Responses ==
    {[status_code |-> s, namelist |-> n] :
        s \in Statuses, n \in (SeqUpTo(EntryNames, MaxEntries) \ {<<>>})}

to_dir == <<"D">>

Join(dir, name) == dir \o <<name>>

\* Response.raise_for_status raises HTTPError for a 4xx or 5xx status
\* (Response.ok is its negation).
RaisesOnlyServerErrors(status) == 500 <= status /\ status < 600

RaisesForStatus(status) == 400 <= status /\ status < 600

FetchInit ==
    /\ f_pc = "call"
    /\ f_response = <<>>
    /\ dir_exists \in BOOLEAN
    /\ dir_files = {} /\ opened = FALSE /\ f_result = <<>>

\* lines 102-103
Makedirs ==
    /\ f_pc = "call"
    /\ dir_exists' = TRUE
    /\ f_pc' = "get"
    /\ UNCHANGED <<f_response, dir_files, opened, f_result>>
    /\ OnlyFetch

\* line 105
Get ==
    /\ f_pc = "get"
    /\ \E response \in Responses : f_response' = <<response>>
    /\ f_pc' = "status"
    /\ UNCHANGED <<dir_exists, dir_files, opened, f_result>>
    /\ OnlyFetch

\* line 105, the transport fails: requests.get raises
GetFails ==
    /\ f_pc = "get"
    /\ f_pc' = "raised"
    /\ UNCHANGED <<f_response, dir_exists, dir_files, opened, f_result>>
    /\ OnlyFetch

\* line 106
RaiseForStatus ==
    /\ f_pc = "status"
    /\ f_pc' = IF RaisesForStatus(f_response[1].status_code) THEN "raised" ELSE "open"
    /\ UNCHANGED <<f_response, dir_exists, dir_files, opened, f_result>>
    /\ OnlyFetch

\* lines 107-108
OpenArchive ==
    /\ f_pc = "open"
    /\ opened' = TRUE
    /\ f_pc' = "extract"
    /\ UNCHANGED <<f_response, dir_exists, dir_files, f_result>>
    /\ OnlyFetch

\* line 109
ExtractAll ==
    /\ f_pc = "extract"
    /\ dir_files' = dir_files \cup
          {Join(to_dir, f_response[1].namelist[k]) : k \in 1..Len(f_response[1].namelist)}
    /\ f_pc' = "return"
    /\ UNCHANGED <<f_response, dir_exists, opened, f_result>>
    /\ OnlyFetch

\* line 111
ReturnPath ==
    /\ f_pc = "return"
    /\ f_result' = Join(to_dir, f_response[1].namelist[1])
    /\ f_pc' = "done"
    /\ UNCHANGED <<f_response, dir_exists, dir_files, opened>>
    /\ OnlyFetch

(***************************************************************************)
(* The reference document.  xpath returns the sequence of matching         *)
(* elements (empty when the element is absent); an element's .text is None *)
(* when it has no text node, '' when its only text node is empty (an empty *)
(* CDATA section), and the text otherwise.                                 *)
(***************************************************************************)
None == "None"

Elem(text) == <<[text |-> text]>>

NoElem == <<>>

RefData(id, issr) == [Id |-> id, Issr |-> issr]

RefDatas ==
    { RefData(Elem("X"), Elem("A")),
      RefData(Elem("X"), Elem("B")),
      RefData(Elem("Y"), Elem("B")),
      RefData(Elem("X"), Elem(None)),
      RefData(Elem("X"), Elem("")),
      RefData(Elem(None), Elem("A")),
      RefData(Elem("X"), NoElem),
      RefData(NoElem, Elem("A")) }

MaxRecords == 2

Documents == SeqUpTo(RefDatas, MaxRecords)

\* a record for which one of the [0] subscripts of lines 158-159 raises
LacksField(ref_data) == Len(ref_data.Id) = 0 \/ Len(ref_data.Issr) = 0

Defective(doc) == \E k \in 1..Len(doc) : LacksField(doc[k])

(***************************************************************************)
(* append_to_table, lines 155-162: the loop that builds args; it stops     *)
(* with IndexError at the first record that lacks a field.                 *)
(***************************************************************************)
RECURSIVE CollectArgs(_, _)
CollectArgs(doc, args) ==
    IF Len(doc) = 0 THEN [error |-> "none", args |-> args]
    ELSE LET ref_data == Head(doc)
         IN  IF LacksField(ref_data)
             THEN [error |-> "IndexError", args |-> args]
             ELSE CollectArgs(Tail(doc),
                      Append(args, [isin |-> ref_data.Id[1].text,
                                    lei  |-> ref_data.Issr[1].text]))

RECURSIVE SkipDefective(_, _)
SkipDefective(doc, args) ==
    IF Len(doc) = 0 THEN [error |-> "none", args |-> args]
    ELSE LET ref_data == Head(doc)
         IN  IF LacksField(ref_data)
             THEN SkipDefective(Tail(doc), args)
             ELSE SkipDefective(Tail(doc),
                      Append(args, [isin |-> ref_data.Id[1].text,
                                    lei  |-> ref_data.Issr[1].text]))

ParseRefData(doc, args) == CollectArgs(doc, args)

(***************************************************************************)
(* The table of CREATE_TABLE and INSERT OR IGNORE.  A row that violates    *)
(* NOT NULL or the primary key is skipped; SQLite's primary key of a rowid *)
(* table admits NULL and never counts two NULLs as equal.                  *)
(***************************************************************************)
HasIsin(t, isin) == \E k \in 1..Len(t) : t[k].isin = isin

ViolatesNotNull(row) == row.lei = None

ViolatesPrimaryKey(t, row) == row.isin # None /\ HasIsin(t, row.isin)

InsertOrReplace(t, row) ==
    IF ViolatesNotNull(row) THEN t
    ELSE IF ViolatesPrimaryKey(t, row)
         THEN [k \in 1..Len(t) |-> IF t[k].isin = row.isin THEN row ELSE t[k]]
         ELSE Append(t, row)

InsertOrIgnore(t, row) ==
    IF ViolatesNotNull(row) \/ ViolatesPrimaryKey(t, row) THEN t ELSE Append(t, row)

\* cursor.executemany, line 163
RECURSIVE ExecuteMany(_, _)
ExecuteMany(t, args) ==
    IF Len(args) = 0 THEN t
    ELSE ExecuteMany(InsertOrIgnore(t, Head(args)), Tail(args))

(***************************************************************************)
(* lookup_leis, lines 175-179.  SELECT lei ... WHERE isin=? yields the     *)
(* matching rows; fetchone() is the first of them or None; [0] on None     *)
(* raises TypeError.                                                       *)
(***************************************************************************)
SelectLei(t, isin) ==
    SelectSeq(t, LAMBDA r : isin # None /\ r.isin = isin)

RECURSIVE LookupInStorageOrder(_, _, _)
LookupInStorageOrder(t, isins, results) ==
    IF Len(t) = 0 THEN [error |-> "none", results |-> results]
    ELSE LookupInStorageOrder(Tail(t), isins,
            IF \E k \in 1..Len(isins) : isins[k] = Head(t).isin
            THEN Append(results, Head(t).lei) ELSE results)

RECURSIVE LookupEach(_, _, _)
LookupEach(t, isins, results) ==
    IF Len(isins) = 0 THEN [error |-> "none", results |-> results]
    ELSE LET cursor_rows == SelectLei(t, Head(isins))
         IN  IF Len(cursor_rows) = 0
             \* fetchone() is None
             THEN [error |-> "TypeError", results |-> results]
             ELSE LookupEach(t, Tail(isins), Append(results, Head(cursor_rows).lei))

LookupLeis(t, isins, results) == LookupEach(t, isins, results)

(***************************************************************************)
(* SpecStore: calls of append_to_table and lookup_leis on one table, one   *)
(* after the other.  `last` is the latest call: its input, its exception   *)
(* (or "none"), its result and the rows of the table when it began.        *)
(* first_insert, first_valid and null_isin_valid record the history of     *)
(* INSERT statements: for each isin the lei of the first INSERT given it,  *)
(* the lei of the first INSERT given it with a lei that is not NULL, and   *)
(* the number of INSERTs with a NULL isin and a lei that is not NULL.      *)
(***************************************************************************)
MaxInserted == 4

MaxIsins == 2

Isins == {"X", "Y"}

IsinValues == Isins \cup {None}

NoCall == [op |-> "none", error |-> "none", doc |-> <<>>, isins |-> <<>>,
           results |-> <<>>, before |-> <<>>]

RECURSIVE FirstLeis(_, _, _)
FirstLeis(f, args, valid_only) ==
    IF Len(args) = 0 THEN f
    ELSE LET a == Head(args)
             g == IF f[a.isin] = "never" /\ (~valid_only \/ a.lei # None)
                  THEN [f EXCEPT ![a.isin] = a.lei] ELSE f
         IN  FirstLeis(g, Tail(args), valid_only)

RECURSIVE CountNullIsin(_)
CountNullIsin(args) ==
    IF Len(args) = 0 THEN 0
    ELSE (IF Head(args).isin = None /\ Head(args).lei # None THEN 1 ELSE 0)
         + CountNullIsin(Tail(args))

StoreIdle ==
    /\ records_seen = 0 /\ last = NoCall
    /\ first_insert = [v \in IsinValues |-> "never"]
    /\ first_valid = [v \in IsinValues |-> "never"]
    /\ null_isin_valid = 0

Cost(doc) == IF Len(doc) = 0 THEN 1 ELSE Len(doc)

\* lines 150-164
AppendToTable(doc) ==
    /\ records_seen + Cost(doc) <= MaxInserted
    /\ records_seen' = records_seen + Cost(doc)
    /\ table_exists' = TRUE
    /\ LET parsed == ParseRefData(doc, <<>>)
           args   == IF parsed.error = "none" THEN parsed.args ELSE <<>>
       IN  /\ table' = IF parsed.error = "none" THEN ExecuteMany(table, parsed.args) ELSE table
           /\ last' = [op |-> "append", error |-> parsed.error, doc |-> doc,
                       isins |-> <<>>, results |-> <<>>, before |-> table]
           /\ first_insert' = FirstLeis(first_insert, args, FALSE)
           /\ first_valid' = FirstLeis(first_valid, args, TRUE)
           /\ null_isin_valid' = null_isin_valid + CountNullIsin(args)
    /\ OnlyStore

\* lines 173-179
LookupLeisCall(isins) ==
    /\ LET r == IF table_exists \/ Len(isins) = 0
                THEN LookupLeis(table, isins, <<>>)
                ELSE [error |-> "OperationalError", results |-> <<>>]
       IN  last' = [op |-> "lookup", error |-> r.error, doc |-> <<>>,
                    isins |-> isins, results |-> r.results, before |-> table]
    /\ UNCHANGED <<table_exists, table, records_seen, first_insert, first_valid, null_isin_valid>>
    /\ OnlyStore

(***************************************************************************)
(* SpecConc: two callers of append_to_table and one of lookup_leis, each   *)
(* on its own connection to the same database file, statement by          *)
(* statement.  executemany opens a transaction that holds the database's   *)
(* write lock; its rows reach the file at conn.commit().  a_txn is the     *)
(* table as the open transaction sees it, a_before the table when the      *)
(* transaction began, a_new the isins of the rows the batch added.         *)
(* l_seen is what each SELECT of the running lookup found.                 *)
(***************************************************************************)
Appenders == {"w1", "w2"}

ConcDocuments ==
    { <<RefData(Elem("X"), Elem("A")), RefData(Elem("Y"), Elem("B"))>>,
      <<RefData(Elem("Y"), Elem("B")), RefData(Elem("X"), Elem("B"))>>,
      <<RefData(Elem("X"), Elem("B"))>>,
      <<RefData(Elem("Y"), Elem("B")), RefData(Elem("X"), NoElem)>> }

ConcIdle ==
    /\ a_pc = [a \in Appenders |-> "idle"]
    /\ a_args = [a \in Appenders |-> <<>>]
    /\ a_txn = [a \in Appenders |-> <<>>]
    /\ a_before = [a \in Appenders |-> <<>>]
    /\ a_new = [a \in Appenders |-> {}]
    /\ write_lock = {}
    /\ l_pc = "idle" /\ l_isins = <<>> /\ l_results = <<>>
    /\ l_seen = [i \in Isins |-> "unread"]

\* the rows a SELECT on another connection reads
ReadUncommitted ==
    IF write_lock # {} THEN a_txn[CHOOSE a \in write_lock : TRUE] ELSE table

ReadView == table

\* lines 150-162
ConcAppendCall(a, doc) ==
    /\ a_pc[a] = "idle"
    /\ table_exists' = TRUE
    /\ LET parsed == ParseRefData(doc, <<>>)
       IN  /\ a_pc' = [a_pc EXCEPT ![a] = IF parsed.error = "none" THEN "begin" ELSE "failed"]
           /\ a_args' = [a_args EXCEPT ![a] = IF parsed.error = "none" THEN parsed.args ELSE <<>>]
    /\ a_new' = [a_new EXCEPT ![a] = {}]
    /\ UNCHANGED <<table, a_txn, a_before, write_lock, l_pc, l_isins, l_results, l_seen>>
    /\ OnlyConc

\* line 163: executemany begins a transaction and takes the write lock
ConcBegin(a) ==
    /\ a_pc[a] = "begin"
    /\ write_lock = {}
    /\ write_lock' = {a}
    /\ a_txn' = [a_txn EXCEPT ![a] = table]
    /\ a_before' = [a_before EXCEPT ![a] = table]
    /\ a_pc' = [a_pc EXCEPT ![a] = "insert"]
    /\ UNCHANGED <<db_vars, a_args, a_new, l_pc, l_isins, l_results, l_seen>>
    /\ OnlyConc

\* line 163: another connection holds the write lock until the busy timeout
ConcBusy(a) ==
    /\ a_pc[a] = "begin"
    /\ write_lock # {}
    /\ a_pc' = [a_pc EXCEPT ![a] = "failed"]
    /\ UNCHANGED <<db_vars, a_args, a_txn, a_before, a_new, write_lock, l_pc, l_isins, l_results, l_seen>>
    /\ OnlyConc

\* line 163: one INSERT OR IGNORE of the batch
ConcInsertRow(a) ==
    /\ a_pc[a] = "insert"
    /\ Len(a_args[a]) > 0
    /\ LET row == Head(a_args[a])
           txn == InsertOrIgnore(a_txn[a], row)
       IN  /\ a_txn' = [a_txn EXCEPT ![a] = txn]
           /\ a_new' = [a_new EXCEPT ![a] = IF txn # a_txn[a] THEN @ \cup {row.isin} ELSE @]
    /\ a_args' = [a_args EXCEPT ![a] = Tail(@)]
    /\ UNCHANGED <<db_vars, a_pc, a_before, write_lock, l_pc, l_isins, l_results, l_seen>>
    /\ OnlyConc

\* line 164
ConcCommit(a) ==
    /\ a_pc[a] = "insert"
    /\ Len(a_args[a]) = 0
    /\ table' = a_txn[a]
    /\ write_lock' = {}
    /\ a_pc' = [a_pc EXCEPT ![a] = "done"]
    /\ UNCHANGED <<table_exists, a_args, a_txn, a_before, a_new, l_pc, l_isins, l_results, l_seen>>
    /\ OnlyConc

\* lines 163-164: the process dies or the storage fails before the commit
\* completes; the open transaction is rolled back
ConcAbort(a) ==
    /\ a_pc[a] = "insert"
    /\ write_lock' = {}
    /\ a_pc' = [a_pc EXCEPT ![a] = "aborted"]
    /\ a_new' = [a_new EXCEPT ![a] = {}]
    /\ UNCHANGED <<db_vars, a_args, a_txn, a_before, l_pc, l_isins, l_results, l_seen>>
    /\ OnlyConc

\* lines 173-175
ConcLookupCall(isins) ==
    /\ l_pc = "idle"
    /\ l_pc' = "select"
    /\ l_isins' = isins
    /\ l_results' = <<>>
    /\ l_seen' = [i \in Isins |-> "unread"]
    /\ UNCHANGED <<db_vars, a_pc, a_args, a_txn, a_before, a_new, write_lock>>
    /\ OnlyConc

\* lines 176-178, one iteration
ConcSelect ==
    /\ l_pc = "select"
    /\ Len(l_isins) > 0
    /\ LET i == Head(l_isins)
           cursor_rows == SelectLei(ReadView, i)
       IN  IF ~table_exists
           THEN /\ l_pc' = "failed"
                /\ UNCHANGED <<l_isins, l_results, l_seen>>
           ELSE IF Len(cursor_rows) = 0
           THEN /\ l_pc' = "failed"
                /\ l_seen' = [l_seen EXCEPT ![i] = "absent"]
                /\ UNCHANGED <<l_isins, l_results>>
           ELSE /\ l_results' = Append(l_results, Head(cursor_rows).lei)
                /\ l_seen' = [l_seen EXCEPT ![i] = "present"]
                /\ l_isins' = Tail(l_isins)
                /\ UNCHANGED l_pc
    /\ UNCHANGED <<db_vars, a_pc, a_args, a_txn, a_before, a_new, write_lock>>
    /\ OnlyConc

\* line 179
ConcLookupReturn ==
    /\ l_pc = "select"
    /\ Len(l_isins) = 0
    /\ l_pc' = "done"
    /\ UNCHANGED <<db_vars, a_pc, a_args, a_txn, a_before, a_new, write_lock, l_isins, l_results, l_seen>>
    /\ OnlyConc

\* the caller calls lookup_leis again
ConcLookupAgain ==
    /\ l_pc \in {"done", "failed"}
    /\ l_pc' = "idle"
    /\ UNCHANGED <<db_vars, a_pc, a_args, a_txn, a_before, a_new, write_lock, l_isins, l_results, l_seen>>
    /\ OnlyConc

(***************************************************************************)
(* The specifications.                                                     *)
(***************************************************************************)
InitParse == ParseInit /\ PageIdle /\ FetchIdle /\ DbEmpty /\ StoreIdle /\ ConcIdle

NextParse == ParseCall

SpecParse == InitParse /\ [][NextParse]_vars

InitPaginate == ParseIdle /\ PageInit /\ FetchIdle /\ DbEmpty /\ StoreIdle /\ ConcIdle

NextPaginate ==
    \/ GetFileUrlsFirst
    \/ GetFileUrlsNext
    \/ GetFileUrlsReturn

SpecPaginate == InitPaginate /\ [][NextPaginate]_vars

InitFetch == ParseIdle /\ PageIdle /\ FetchInit /\ DbEmpty /\ StoreIdle /\ ConcIdle

NextFetch ==
    \/ Makedirs
    \/ Get
    \/ GetFails
    \/ RaiseForStatus
    \/ OpenArchive
    \/ ExtractAll
    \/ ReturnPath

SpecFetch == InitFetch /\ [][NextFetch]_vars

InitStore == ParseIdle /\ PageIdle /\ FetchIdle /\ DbEmpty /\ StoreIdle /\ ConcIdle

NextStore ==
    \/ \E doc \in Documents : AppendToTable(doc)
    \/ \E isins \in SeqUpTo(Isins, MaxIsins) : LookupLeisCall(isins)

SpecStore == InitStore /\ [][NextStore]_vars

NextConc ==
    \/ \E a \in Appenders, doc \in ConcDocuments : ConcAppendCall(a, doc)
    \/ \E a \in Appenders : ConcBegin(a)
    \/ \E a \in Appenders : ConcBusy(a)
    \/ \E a \in Appenders : ConcInsertRow(a)
    \/ \E a \in Appenders : ConcCommit(a)
    \/ \E a \in Appenders : ConcAbort(a)
    \/ \E isins \in SeqUpTo(Isins, MaxIsins) : ConcLookupCall(isins)
    \/ ConcSelect
    \/ ConcLookupReturn
    \/ ConcLookupAgain

SpecConc == InitStore /\ [][NextConc]_vars

(***************************************************************************)
(* Properties of _parse_file_urls (SpecParse).                             *)
(***************************************************************************)
FilterLetters(ft) == {ft[k] : k \in 1..Len(ft)}

\* the file name is FULINS_ followed at once by a letter of the filter
NamedForFilter(fname, ft) ==
    /\ Len(fname) >= 8
    /\ <<fname[1], fname[2], fname[3], fname[4], fname[5], fname[6], fname[7]>>
         = <<"F", "U", "L", "I", "N", "S", "_">>
    /\ fname[8] \in FilterLetters(ft)

\* C6: the parser keeps an entry if and only if the filter is empty or the
\* entry's file name begins with FULINS_ immediately followed by a letter of
\* the filter; the kept entries come in page order (download links rise with
\* the position in the page) and nothing is raised for the dropped ones;
\* [FULINS_B_1, FULINS_E_2] gives the first entry alone under filter B and
\* both under the empty filter.
ParserKeepsExactlyMatching ==
    p_pc = "done" =>
        /\ {p_urls[k] : k \in 1..Len(p_urls)}
             = {i \in 1..Len(p_root.docs) :
                    p_ftype = <<>> \/ NamedForFilter(p_root.docs[i].file_name, p_ftype)}
        /\ \A j, k \in 1..Len(p_urls) : j < k => p_urls[j] < p_urls[k]
        /\ (p_root = PageOf(<<FULINS_B_1, FULINS_E_2>>) /\ p_ftype = <<"B">>) => p_urls = <<1>>
        /\ (p_root = PageOf(<<FULINS_B_1, FULINS_E_2>>) /\ p_ftype = <<>>) => p_urls = <<1, 2>>

ParserDropsOtherType ==
    /\ p_pc = "done"
    /\ p_root = PageOf(<<FULINS_B_1, FULINS_E_2, DLTINS_B_1>>)
    /\ p_ftype = <<"B">>
    /\ p_urls = <<1>>

(***************************************************************************)
(* Properties of get_file_urls (SpecPaginate).                             *)
(***************************************************************************)
Starts == [k \in 1..Len(requests) |-> requests[k].start]

\* C3: the requests are made at the offsets 0, R, 2R, ... in this order, one
\* per offset, each for R rows; no request after the first starts at or
\* beyond the reported total T; when the call returns, the last offset is the
\* first one with offset + R >= T and every multiple of R below T was
\* requested; T = 250 gives the offsets 0, 100, 200 and T = 200 gives 0, 100.
PaginationOffsets ==
    /\ \A k \in 1..Len(requests) :
          /\ requests[k].start = (k - 1) * rows
          /\ requests[k].rows = rows
    /\ \A k \in 2..Len(requests) : requests[k].start < num_results
    /\ g_pc = "done" =>
          /\ Len(requests) >= 1
          /\ requests[Len(requests)].start + rows >= num_results
          /\ \A k \in 1..(Len(requests) - 1) : requests[k].start + rows < num_results
          /\ \A o \in 0..(num_results - 1) :
                o % rows = 0 => \E k \in 1..Len(requests) : requests[k].start = o
          /\ num_results = 250 => Starts = <<0, 100, 200>>
          /\ num_results = 200 => Starts = <<0, 100>>

ThreeRequestsFor250 ==
    /\ g_pc = "done"
    /\ num_results = 250
    /\ Starts = <<0, 100, 200>>

\* C4: when the window requested has from <= to and the type filter is
\* empty, the list returned holds every one of the endpoint's `total`
\* entries exactly once.
PaginationComplete ==
    (g_pc = "done" /\ ftype = <<>> /\ from_date <= to_date) =>
        /\ Len(urls) = total
        /\ {urls[k] : k \in 1..Len(urls)} = 0..(total - 1)

AllOf250Returned ==
    /\ g_pc = "done" /\ ftype = <<>> /\ from_date <= to_date
    /\ total = 250
    /\ Len(urls) = 250
    /\ Len(requests) = 3

(***************************************************************************)
(* Properties of download_zipped_file (SpecFetch).                         *)
(***************************************************************************)
\* a status that is not a success: Response.ok is False
NonSuccess(status) == status >= 400

Extracted(namelist) ==
    \A k \in 1..Len(namelist) : Join(to_dir, namelist[k]) \in dir_files

RowsWith(t, isin) == SelectSeq(t, LAMBDA r : r.isin = isin)

Stored(t, isin, lei) == \E k \in 1..Len(t) : t[k].isin = isin /\ t[k].lei = lei

\* C1: a lookup on an existing table completes whatever identifiers it is
\* given: the result has the length of the input, with the stored lei at the
\* position of an identifier that is in the table and None at the position
\* of one that is not.
LookupNeverFails ==
    (last.op = "lookup" /\ table_exists) =>
        /\ last.error = "none"
        /\ Len(last.results) = Len(last.isins)
        /\ \A k \in 1..Len(last.isins) :
              IF HasIsin(table, last.isins[k])
              THEN Stored(table, last.isins[k], last.results[k])
              ELSE last.results[k] = None

LookupInInputOrder ==
    (last.op = "lookup" /\ \A k \in 1..Len(last.isins) : HasIsin(table, last.isins[k])) =>
        /\ last.error = "none"
        /\ Len(last.results) = Len(last.isins)
        /\ \A k \in 1..Len(last.isins) : Stored(table, last.isins[k], last.results[k])

LookupAgainstStorageOrder ==
    /\ last.op = "lookup"
    /\ table = <<[isin |-> "X", lei |-> "A"], [isin |-> "Y", lei |-> "B"]>>
    /\ last.isins = <<"Y", "X">>
    /\ last.results = <<"B", "A">>

\* C8: an append of a document in which some record lacks its Id or its Issr
\* element raises, and the rows of the table are those it held before the
\* call.
DefectiveFileStoresNothing ==
    (last.op = "append" /\ Defective(last.doc)) =>
        /\ last.error = "IndexError"
        /\ table = last.before

GoodRecordBeforeDefectiveNotStored ==
    /\ last.op = "append"
    /\ last.doc = <<RefData(Elem("Y"), Elem("B")), RefData(Elem("X"), NoElem)>>
    /\ last.error = "IndexError"
    /\ ~HasIsin(table, "Y")

\* C10: every stored row has a lei that is neither NULL nor the empty
\* string.
LeiNeverEmpty ==
    \A k \in 1..Len(table) : table[k].lei # None /\ table[k].lei # ""

(***************************************************************************)
(* Properties of the lookup store under concurrent calls (SpecConc).       *)
(***************************************************************************)
\* what readers can see of the batch of appender a
NoneVisible(a) == \A i \in a_new[a] : ~HasIsin(ReadView, i)

AllVisible(a) == \A i \in a_new[a] : HasIsin(ReadView, i)

BatchAtomicToReaders ==
    \A a \in Appenders :
        /\ a_pc[a] = "insert" => NoneVisible(a)
        /\ a_pc[a] = "done" => AllVisible(a)
        /\ ~ \E i, j \in a_new[a] : l_seen[i] = "present" /\ l_seen[j] = "absent"

AbortRestores ==
    \A a \in Appenders :
        (a_pc[a] = "insert" /\ a_pc'[a] = "aborted") => (table' = a_before[a] /\ table' = table)

\* C7: while a batch is being inserted readers see none of its new rows and
\* after its commit all of them, no lookup call finds one new row of a batch
\* present and another absent, and the step in which an append aborts
\* leaves the table with the rows it had when the batch began.
AppendAtomic == []BatchAtomicToReaders /\ [][AbortRestores]_vars

LookupDuringOpenBatch ==
    \E a \in Appenders :
        /\ a_pc[a] = "insert"
        /\ a_new[a] # {}
        /\ l_pc = "select"
        /\ Len(l_results) = 1
        /\ Len(l_isins) > 0
        /\ Head(l_isins) \in a_new[a]

====
